---- MODULE Spec2Model ----
(***************************************************************************)
(* Model of core/services/parser/clang_parser.py: the ClangParser store of *)
(* translation units (run / drop / save_to_disk / load_from_disk), the AST *)
(* node classifier (get_ast_node_id and friends, with the dependent-type   *)
(* extraction helpers), find_all_references, ImmutableSourceLocation,      *)
(* traverse and the patched Cursor.get_children.                           *)
(*                                                                         *)
(* Python strings that the code slices or joins (store keys, directory     *)
(* names, file names) are sequences of one-character strings.              *)
(***************************************************************************)
EXTENDS Integers, Sequences, FiniteSets, TLC

VARIABLES
    tunits,      \* ClangParser.tunits: dict key -> translation unit
    nparse,      \* number of units the front-end has produced so far
    disk,        \* the file system: file (path components) -> serialized unit
    lastOp,      \* the last store operation and what it returned
    pc,          \* position of the running query or traversal, or "idle"
    filename,    \* the variable 'filename' of find_all_references
    query,       \* the arguments of the running query
    target,      \* client_data.cursor
    references,  \* client_data.references
    todo,        \* keys of self.tunits the loop has not reached yet
    stack,       \* nodes of the unit under traversal still to be visited
    attached,    \* _tu and ast_parent of the cursor the visitor holds
    cur,         \* the cursor handed to the classifier
    res,         \* what the last query or function called returned
    locs,        \* the two ImmutableSourceLocation objects under comparison
    children,    \* the list 'children' of get_children_patched
    trav         \* the running traverse(): function, unit, root, result type

storeVars == <<tunits, nparse, disk, lastOp>>
queryVars == <<pc, filename, query, target, references, todo, stack, attached>>
classVars == <<cur, res>>
objVars == <<locs, children, trav>>
vars == <<tunits, nparse, disk, lastOp, pc, filename, query, target,
          references, todo, stack, attached, cur, res, locs, children,
          trav>>

None == "None"

----------------------------------------------------------------------------
(* Strings and os.path                                                     *)

Sep == "/"
AstExt == <<".", "a", "s", "t">>

\* s[i:] for 0 <= i
StrFrom(s, i) == SubSeq(s, i + 1, Len(s))

\* s[i:-n]
StrSlice(s, i, n) == SubSeq(s, i + 1, Len(s) - n)

EndsWithSep(s) == Len(s) > 0 /\ s[Len(s)] = Sep
StartsWithSep(s) == Len(s) > 0 /\ s[1] = Sep

\* posixpath.join(a, b)
PathJoin(a, b) ==
    IF StartsWithSep(b) THEN b
    ELSE IF a = <<>> \/ EndsWithSep(a) THEN a \o b
    ELSE a \o <<Sep>> \o b

\* index of the last "." of s, 0 when there is none
LastDot(s) ==
    LET I == {i \in 1..Len(s) : s[i] = "."}
    IN  IF I = {} THEN 0 ELSE CHOOSE i \in I : \A j \in I : j <= i

\* os.path.splitext(name)[1] for a name without separators: leading dots
\* of the name do not start an extension
SplitExt(s) ==
    LET d == LastDot(s)
    IN  IF d > 0 /\ \E i \in 1..(d - 1) : s[i] # "."
        THEN SubSeq(s, d, Len(s))
        ELSE <<>>

\* the components of a path as the file system resolves it: empty
\* components (repeated or trailing separators) do not count
RECURSIVE Components(_)
Components(s) ==
    IF s = <<>> THEN <<>>
    ELSE IF s[1] = Sep THEN Components(Tail(s))
    ELSE LET I == {i \in 1..Len(s) : s[i] = Sep}
             e == IF I = {} THEN Len(s) + 1
                  ELSE CHOOSE i \in I : \A j \in I : i <= j
         IN  <<SubSeq(s, 1, e - 1)>> \o Components(SubSeq(s, e, Len(s)))

IsPrefix(p, s) == Len(p) <= Len(s) /\ SubSeq(s, 1, Len(p)) = p

\* the dirpath/file strings os.walk(top) and os.path.join produce for the
\* file whose components below top are rel
RECURSIVE WalkPath(_, _)
WalkPath(top, rel) ==
    IF rel = <<>> THEN top
    ELSE WalkPath(PathJoin(top, Head(rel)), Tail(rel))

----------------------------------------------------------------------------
(* The store                                                               *)

MaxParses == 2

KeyA  == <<"/", "a">>
KeyB  == <<"/", "b">>
KeyDA == <<"/", "d", "/", "a">>
KeyAB == <<"a", "b">>
KeyBB == <<"b", "b">>

KeyPool == {KeyDA, KeyAB, KeyBB}
RootPool == {<<"/", "r">>, <<"/", "r", "/">>}
SourcePool == {KeyA, KeyB}

\* Python None where a unit is expected
NoUnit == [src |-> <<>>, id |-> 0]

\* index.parse raised
ParseError == [src |-> <<>>, id |-> -1]

\* the assignment made without regard to the failure of parse
RunStoreAlways(t, k, u) ==
    [x \in DOMAIN t \cup {k} |-> IF x = k THEN u ELSE t[x]]

\* self.tunits[original_filename] = self.index.parse(...) inside try/except:
\* the assignment happens only when parse returned
RunStore(t, k, u) ==
    IF u = ParseError THEN t
    ELSE [x \in DOMAIN t \cup {k} |-> IF x = k THEN u ELSE t[x]]

\* self.tunits.get(filename, None)
get_translation_unit(t, k) == IF k \in DOMAIN t THEN t[k] ELSE NoUnit

Keys(t) == DOMAIN t

\* a deletion that takes the other keys with it
DelKeyAll(t, k) == [x \in {} |-> t[x]]

\* del self.tunits[filename]
DelKey(t, k) == [x \in DOMAIN t \ {k} |-> t[x]]

Empty == [x \in {} |-> NoUnit]

\* the try/except of run() lets no exception out
RunRaises(u) == FALSE

\* os.path.join(root_dir, filename[1:len(filename)] + '.ast')
SavePath(root, k) == PathJoin(root, StrFrom(k, 1)) \o AstExt

\* the file a path string names
FileOf(s) == Components(s)

\* the files os.walk(root_dir) finds whose extension is '.ast'
AstFilesUnder(d, root) ==
    {p \in DOMAIN d : /\ IsPrefix(Components(root), p)
                      /\ Len(p) > Len(Components(root))
                      /\ SplitExt(p[Len(p)]) = AstExt}

\* parsing_result_filename[len(root_dir):-len('.ast')]
LoadKey(root, p) ==
    LET rel == SubSeq(p, Len(Components(root)) + 1, Len(p))
    IN  StrSlice(WalkPath(root, rel), Len(root), Len(AstExt))

\* a load that keeps what the store held
LoadUnitsKeeping(t, d, root, L) ==
    LET K == {LoadKey(root, p) : p \in L}
    IN  [k \in DOMAIN t \cup K |->
            IF k \in K THEN d[CHOOSE p \in L : LoadKey(root, p) = k]
            ELSE t[k]]

\* self.tunits.clear(), then self.tunits[original_filename] =
\* self.index.read(parsing_result_filename) for the files of L
LoadUnits(t, d, root, L) ==
    [k \in {LoadKey(root, p) : p \in L} |->
        d[CHOOSE p \in L : LoadKey(root, p) = k]]

Summary(o) == [op |-> o.op, arg |-> o.arg, ok |-> o.ok, keys |-> o.keys]

NoOp == [op |-> "init", arg |-> <<>>, ok |-> TRUE, keys |-> {}]

Idle == pc = "idle"

\* ClangParser.run(contents_filename, original_filename, ...): the front-end
\* either returns a new unit for src or fails
Run(k, src, ok) ==
    /\ Idle
    /\ ok => nparse < MaxParses
    /\ LET u == IF ok THEN [src |-> src, id |-> nparse + 1] ELSE ParseError
       IN  /\ tunits' = RunStore(tunits, k, u)
           /\ lastOp' = [op |-> "run", arg |-> k, ok |-> ok,
                         keys |-> {}, raised |-> RunRaises(u), prev |-> NoOp]
    /\ nparse' = IF ok THEN nparse + 1 ELSE nparse
    /\ UNCHANGED <<disk, queryVars, classVars, objVars>>

\* ClangParser.drop_translation_unit(filename)
DropTranslationUnit(k) ==
    /\ Idle
    /\ tunits' = IF k \in DOMAIN tunits THEN DelKey(tunits, k) ELSE tunits
    /\ lastOp' = [op |-> "drop", arg |-> k, ok |-> TRUE,
                  keys |-> Keys(tunits), raised |-> FALSE, prev |-> NoOp]
    /\ UNCHANGED <<nparse, disk, queryVars, classVars, objVars>>

\* ClangParser.drop_all_translation_units()
DropAllTranslationUnits ==
    /\ Idle
    /\ tunits' = Empty
    /\ lastOp' = [op |-> "dropall", arg |-> <<>>, ok |-> TRUE,
                  keys |-> {}, raised |-> FALSE, prev |-> NoOp]
    /\ UNCHANGED <<nparse, disk, queryVars, classVars, objVars>>

\* ClangParser.save_to_disk(root_dir): the units of W are written, in some
\* iteration order, before makedirs or save fails for a key outside W; with
\* W all the keys the call returns True
SaveToDisk(root, W) ==
    /\ Idle
    /\ W \subseteq DOMAIN tunits
    /\ LET P == {FileOf(SavePath(root, k)) : k \in W}
       IN  \E d \in [P -> {tunits[k] : k \in W}] :
              /\ \A p \in P : \E k \in W : /\ FileOf(SavePath(root, k)) = p
                                           /\ d[p] = tunits[k]
              /\ disk' = [p \in DOMAIN disk \cup P |->
                             IF p \in P THEN d[p] ELSE disk[p]]
    /\ lastOp' = [op |-> "save", arg |-> root, ok |-> (W = DOMAIN tunits),
                  keys |-> Keys(tunits), raised |-> FALSE, prev |-> NoOp]
    /\ UNCHANGED <<tunits, nparse, queryVars, classVars, objVars>>

\* ClangParser.load_from_disk(root_dir): the store is cleared, then the
\* files of L are read before index.read fails for a file outside L; with L
\* all the '.ast' files under root_dir the call returns True
LoadFromDisk(root, L) ==
    /\ Idle
    /\ L \subseteq AstFilesUnder(disk, root)
    /\ tunits' = LoadUnits(tunits, disk, root, L)
    /\ lastOp' = [op |-> "load", arg |-> root,
                  ok |-> (L = AstFilesUnder(disk, root)),
                  keys |-> Keys(tunits), raised |-> FALSE,
                  prev |-> Summary(lastOp)]
    /\ UNCHANGED <<nparse, disk, queryVars, classVars, objVars>>

NoCursor == [tag |-> "none"]
NoQuery == [file |-> <<>>, line |-> 0, column |-> 0]

QueryIdle ==
    /\ pc = "idle"
    /\ filename = <<>>
    /\ query = NoQuery
    /\ target = [tag |-> "none", spelling |-> "", usr |-> ""]
    /\ references = {}
    /\ todo = {}
    /\ stack = <<>>
    /\ attached = [node |-> 0, parent |-> 0, tu |-> 0]

ClassIdle ==
    /\ cur = NoCursor
    /\ res = [op |-> "none", ret |-> [raised |-> FALSE, value |-> None]]

\* ClangParser.__init__: self.tunits = {}
InitStore ==
    /\ tunits = Empty
    /\ nparse = 0
    /\ disk = Empty
    /\ lastOp = [op |-> "init", arg |-> <<>>, ok |-> TRUE, keys |-> {},
                 raised |-> FALSE, prev |-> NoOp]

NoLocs == [a |-> [tag |-> "none"], b |-> [tag |-> "none"]]

NoTraversal == [fn |-> "none", key |-> <<>>, root |-> 0, type |-> "none"]

ObjIdle ==
    /\ locs = NoLocs
    /\ children = <<>>
    /\ trav = NoTraversal

Init ==
    /\ InitStore
    /\ QueryIdle
    /\ ClassIdle
    /\ ObjIdle

Next ==
    \/ \E k \in KeyPool, ok \in BOOLEAN : Run(k, KeyA, ok)
    \/ \E k \in KeyPool : DropTranslationUnit(k)
    \/ DropAllTranslationUnits
    \/ \E root \in RootPool, W \in SUBSET DOMAIN tunits : SaveToDisk(root, W)
    \/ \E root \in RootPool, L \in SUBSET DOMAIN disk : LoadFromDisk(root, L)

\* the store and the file system under run, drop, save and load
Spec == Init /\ [][Next]_vars

----------------------------------------------------------------------------
(* The front-end: the AST index.parse returns for the sources /a and /b    *)
(*                                                                         *)
(*   /a   1: void foobar();                                                *)
(*        2: struct S { void foobar(); };                                  *)
(*        3: void f(S s) { foobar(); s.foobar(); }                         *)
(*   /b   1: #include "/a"                                                 *)
(*        2: void g() { foobar(); foobar(); }                              *)

\* what the code reads of a declaration: spelling and get_usr()
Decl(sp, usr) == [tag |-> "decl", spelling |-> sp, usr |-> usr]

NoDecl == [tag |-> "none", spelling |-> "", usr |-> ""]

DFoobar == Decl("foobar", "c:@F@foobar#")
DS == Decl("S", "c:@S@S")
DSFoobar == Decl("foobar", "c:@S@S@F@foobar#")
DF == Decl("f", "c:@F@f#$@S@S#")
DParm == Decl("s", "c:a@F@f#$@S@S#@s")
DG == Decl("g", "c:@F@g#")
DVaList == Decl("__builtin_va_list", "c:@T@__builtin_va_list")

T(l, c, sp) == [line |-> l, column |-> c, spelling |-> sp]

\* an AST node: kind, spelling, USR, location, referenced declaration,
\* index of the AST parent (0: the cursor of the unit), tokens of the extent
Node(kind, sp, usr, file, l, c, ref, parent, toks) ==
    [kind |-> kind, spelling |-> sp, usr |-> usr, file |-> file, line |-> l,
     column |-> c, ref |-> ref, parent |-> parent, tokens |-> toks]

\* a declaration refers to itself
DeclNode(kind, d, file, l, c, parent, toks) ==
    Node(kind, d.spelling, d.usr, file, l, c, d, parent, toks)

\* an expression has no USR
Expr(kind, sp, file, l, c, ref, parent, toks) ==
    Node(kind, sp, "", file, l, c, ref, parent, toks)

\* location.file is None for what the compiler declares by itself
NoFile == <<>>

\* 'foobar()' at line l, column c of file, below node p, as nodes n, n + 1
\* and n + 2: three cursors with the same spelling at the same location
CallNodes(file, l, c, p, n) ==
    <<Expr("CALL_EXPR", "foobar", file, l, c, DFoobar, p,
           <<T(l, c, "foobar"), T(l, c + 6, "("), T(l, c + 7, ")")>>),
      Expr("UNEXPOSED_EXPR", "foobar", file, l, c, DFoobar, n,
           <<T(l, c, "foobar")>>),
      Expr("DECL_REF_EXPR", "foobar", file, l, c, DFoobar, n + 1,
           <<T(l, c, "foobar")>>)>>

\* the nodes of /a in the order clang_visitChildren reaches them
NodesA ==
    <<DeclNode("TYPEDEF_DECL", DVaList, NoFile, 0, 0, 0, <<>>),
      DeclNode("FUNCTION_DECL", DFoobar, KeyA, 1, 6, 0,
               <<T(1, 1, "void"), T(1, 6, "foobar"), T(1, 12, "(")>>),
      DeclNode("STRUCT_DECL", DS, KeyA, 2, 8, 0,
               <<T(2, 1, "struct"), T(2, 8, "S"), T(2, 10, "{")>>),
      DeclNode("CXX_METHOD", DSFoobar, KeyA, 2, 17, 3,
               <<T(2, 12, "void"), T(2, 17, "foobar"), T(2, 23, "(")>>),
      DeclNode("FUNCTION_DECL", DF, KeyA, 3, 6, 0,
               <<T(3, 1, "void"), T(3, 6, "f"), T(3, 7, "(")>>),
      DeclNode("PARM_DECL", DParm, KeyA, 3, 10, 5,
               <<T(3, 8, "S"), T(3, 10, "s")>>),
      Expr("TYPE_REF", "struct S", KeyA, 3, 8, DS, 6, <<T(3, 8, "S")>>),
      Expr("COMPOUND_STMT", "", KeyA, 3, 13, NoDecl, 5, <<T(3, 13, "{")>>)>>
    \o CallNodes(KeyA, 3, 15, 8, 9)
    \o <<Expr("CALL_EXPR", "foobar", KeyA, 3, 25, DSFoobar, 8,
              <<T(3, 25, "s"), T(3, 26, "."), T(3, 27, "foobar"),
                T(3, 33, "(")>>),
         Expr("MEMBER_REF_EXPR", "foobar", KeyA, 3, 27, DSFoobar, 12,
              <<T(3, 25, "s"), T(3, 26, "."), T(3, 27, "foobar")>>),
         Expr("DECL_REF_EXPR", "s", KeyA, 3, 25, DParm, 13,
              <<T(3, 25, "s")>>)>>

\* /b includes /a: its unit holds the nodes of /a, then its own
NodesB ==
    NodesA
    \o <<DeclNode("FUNCTION_DECL", DG, KeyB, 2, 6, 0,
                  <<T(2, 1, "void"), T(2, 6, "g"), T(2, 7, "(")>>),
         Expr("COMPOUND_STMT", "", KeyB, 2, 10, NoDecl, 15,
              <<T(2, 10, "{")>>)>>
    \o CallNodes(KeyB, 2, 12, 16, 17)
    \o CallNodes(KeyB, 2, 22, 16, 20)

\* tunit.cursor and what it holds, for a unit parsed from src
AstOf(src) == IF src = KeyA THEN NodesA ELSE NodesB

\* the children of node p in AST order
Children(ast, p) ==
    LET F[i \in 0..Len(ast)] ==
            IF i = 0 THEN <<>>
            ELSE IF ast[i].parent = p THEN F[i - 1] \o <<i>> ELSE F[i - 1]
    IN  F[Len(ast)]

\* the byte offset of a position of a file
Offset(l, c) == 40 * l + c

\* a clang SourceLocation: clang_equalLocations compares the locations of
\* one translation unit, so the unit is part of the value
SourceLocation(u, file, l, c) ==
    [tu |-> u.id, file |-> file, line |-> l, column |-> c,
     offset |-> Offset(l, c)]

\* ast_node.location
LocationOf(u, n) == SourceLocation(u, n.file, n.line, n.column)

\* token.extent.start: the tokens of a node are in the file of the node
TokenStart(u, n, t) == SourceLocation(u, n.file, t.line, t.column)

\* the cursor that is none: Cursor.from_location found no node
NullNode == Expr("NO_DECL_FOUND", "", NoFile, 0, 0, NoDecl, 0, <<>>)

\* Cursor.from_location at (line, column) of the main file of the unit: the
\* innermost node located there
CursorAt(u, l, c) ==
    LET ast == AstOf(u.src)
        I == {i \in 1..Len(ast) : /\ ast[i].file = u.src
                                  /\ ast[i].line = l
                                  /\ ast[i].column = c}
    IN  IF I = {} THEN NullNode
        ELSE ast[CHOOSE i \in I : \A j \in I : j <= i]

\* node.referenced if node.referenced else node
Effective(n) == IF n.ref.tag # "none" THEN n.ref ELSE Decl(n.spelling, n.usr)

----------------------------------------------------------------------------
(* find_all_references                                                     *)

\* the test of the file left out: any node that has a file passes
InAnyFile(n, f) == n.file # NoFile

\* ast_node.location.file and ast_node.location.file.name == filename
InFile(n, f) == n.file # NoFile /\ n.file = f

\* the comparison of the spellings without the comparison of the USRs
SameSpelling(n, tgt) == Effective(n).spelling = tgt.spelling

\* node.spelling == cursor.spelling and node.get_usr() == cursor.get_usr()
SameSymbol(n, tgt) ==
    /\ Effective(n).spelling = tgt.spelling
    /\ Effective(n).usr = tgt.usr

\* a visitor without the loop over the tokens
TokenConfirmsAlways(u, n) == TRUE

\* the for loop over ast_node.get_tokens(): the first token that starts at
\* the location of the node decides, by its spelling
TokenConfirms(u, n) ==
    LET I == {i \in 1..Len(n.tokens) :
                 TokenStart(u, n, n.tokens[i]) = LocationOf(u, n)}
    IN  /\ I # {}
        /\ n.tokens[CHOOSE i \in I : \A j \in I : i <= j].spelling =
               Effective(n).spelling

\* what the visitor of find_all_references adds for node n of unit u, with
\* the value f of the variable filename
VisitorAdds(u, n, f, tgt) ==
    IF InFile(n, f) /\ SameSymbol(n, tgt) /\ TokenConfirms(u, n)
    THEN {LocationOf(u, n)}
    ELSE {}

NoAttachment == [node |-> 0, parent |-> 0, tu |-> 0]

QueryPositions == {<<1, 6>>, <<3, 15>>, <<2, 17>>, <<3, 27>>, <<3, 25>>,
                   <<2, 12>>, <<9, 9>>}

QueryFiles == {KeyA, KeyB, KeyDA}

\* find_all_references(filename, line, column) up to the loop over the
\* units: [] for a file that is not loaded, else the target cursor
FindAllReferences(f, l, c) ==
    /\ pc = "idle"
    /\ query' = [file |-> f, line |-> l, column |-> c]
    /\ filename' = f
    /\ references' = {}
    /\ stack' = <<>>
    /\ attached' = NoAttachment
    /\ IF f \notin DOMAIN tunits
       THEN /\ pc' = "done"
            /\ target' = NoDecl
            /\ todo' = {}
       ELSE /\ pc' = "visit"
            /\ target' = Effective(CursorAt(tunits[f], l, c))
            /\ todo' = DOMAIN tunits
    /\ UNCHANGED <<storeVars, classVars, objVars>>

\* for filename, tunit in self.tunits.iteritems(): the loop assigns the
\* variable filename that the visitor reads; self.traverse(tunit.cursor ...)
NextUnit(k) ==
    /\ pc = "visit"
    /\ stack = <<>>
    /\ k \in todo
    /\ todo' = todo \ {k}
    /\ filename' = k
    /\ stack' = Children(AstOf(tunits[k].src), 0)
    /\ attached' = NoAttachment
    /\ UNCHANGED <<pc, query, target, references, storeVars, classVars,
                   objVars>>

\* one call of traverse.visitor: the child gets _tu and ast_parent, the
\* visitor of find_all_references runs and returns RECURSE
Visit ==
    /\ pc = "visit"
    /\ stack # <<>>
    /\ LET u == tunits[filename]
           ast == AstOf(u.src)
           i == Head(stack)
       IN  /\ attached' = [node |-> i, parent |-> ast[i].parent, tu |-> u.id]
           /\ references' =
                  references \cup VisitorAdds(u, ast[i], filename, target)
           /\ stack' = Children(ast, i) \o Tail(stack)
    /\ UNCHANGED <<pc, filename, query, target, todo, storeVars, classVars,
                   objVars>>

\* a visitor that keeps the cursor it was handed
AfterTraversalKept(att) == att

\* the cursors the callbacks were handed when the traversals are over: the
\* visitor of find_all_references stores ast_node.location only, so no
\* cursor that was given _tu and ast_parent is left
AfterTraversal(att) == NoAttachment

\* return references
ReturnReferences ==
    /\ pc = "visit"
    /\ stack = <<>>
    /\ todo = {}
    /\ pc' = "done"
    /\ attached' = AfterTraversal(attached)
    /\ UNCHANGED <<filename, query, target, references, todo, stack,
                   storeVars, classVars, objVars>>

\* the caller has the result; the parser waits for the next call
Finish ==
    /\ pc \in {"done", "classified"}
    /\ pc' = "idle"
    /\ filename' = <<>>
    /\ query' = NoQuery
    /\ target' = NoDecl
    /\ references' = {}
    /\ cur' = NoCursor
    /\ res' = [op |-> "none", ret |-> [raised |-> FALSE, value |-> None]]
    /\ UNCHANGED <<todo, stack, attached, storeVars, objVars>>

RefKeys == {KeyA, KeyB}

----------------------------------------------------------------------------
(* Properties of the store                                                 *)

\* C3: a failing run() raises nothing and leaves get_translation_unit(k)
\* as it was for the key it was called with and for every other key
C3_FailedRunKeepsStore ==
    [][(lastOp'.op = "run" /\ ~lastOp'.ok) =>
          /\ ~lastOp'.raised
          /\ \A k \in KeyPool \cup DOMAIN tunits \cup DOMAIN tunits' :
                get_translation_unit(tunits', k) =
                    get_translation_unit(tunits, k)]_vars

\* a run() has failed for a key that holds a previously parsed unit
C3_Witness ==
    /\ lastOp.op = "run"
    /\ ~lastOp.ok
    /\ lastOp.arg \in DOMAIN tunits
    /\ get_translation_unit(tunits, lastOp.arg).id > 0

SaveThenLoad ==
    /\ lastOp.op = "load"
    /\ lastOp.ok
    /\ lastOp.prev.op = "save"
    /\ lastOp.prev.ok
    /\ lastOp.prev.arg = lastOp.arg

\* C4: after a successful save_to_disk(dir) followed by a successful
\* load_from_disk(dir) the key set is the key set present before saving
C4_SaveLoadKeys == SaveThenLoad => Keys(tunits) = lastOp.prev.keys

\* C11: a successful run(k) makes get_translation_unit(k) the unit that run
\* produced, a failing run changes nothing, drop_translation_unit(k) makes
\* get_translation_unit(k) absent without raising, whether k was known or
\* not, each leaving every other key as it was, and
\* drop_all_translation_units leaves every key absent; so a key holds the
\* unit of its most recent successful run not followed by a drop
C11_StoreLifecycle ==
    [][LET o == lastOp'
           K == KeyPool \cup DOMAIN tunits \cup DOMAIN tunits'
           Others == \A k \in K \ {o.arg} :
                         get_translation_unit(tunits', k) =
                             get_translation_unit(tunits, k)
       IN  /\ (o.op = "run" /\ o.ok) =>
                  /\ nparse' = nparse + 1
                  /\ get_translation_unit(tunits', o.arg).id = nparse'
                  /\ Others
           /\ (o.op = "run" /\ ~o.ok) =>
                  /\ get_translation_unit(tunits', o.arg) =
                         get_translation_unit(tunits, o.arg)
                  /\ Others
           /\ o.op = "drop" =>
                  /\ ~o.raised
                  /\ get_translation_unit(tunits', o.arg) = NoUnit
                  /\ Others
                  /\ o.arg \notin DOMAIN tunits => tunits' = tunits
           /\ o.op = "dropall" =>
                  \A k \in K : get_translation_unit(tunits', k) = NoUnit]_vars

\* a parsed key has been dropped while another parsed key stays in the store
C11_Witness ==
    /\ lastOp.op = "drop"
    /\ lastOp.arg \in lastOp.keys
    /\ lastOp.arg \notin DOMAIN tunits
    /\ \E k \in DOMAIN tunits : get_translation_unit(tunits, k).id > 0

\* a file name the pattern *.ast matches: it ends in '.ast' and is not a
\* hidden name
GlobAst(name) ==
    /\ Len(name) > Len(AstExt)
    /\ SubSeq(name, Len(name) - Len(AstExt) + 1, Len(name)) = AstExt
    /\ name[1] # "."

\* the *.ast files at any depth below root
FoundUnder(root) ==
    {p \in DOMAIN disk : /\ Len(p) > Len(Components(root))
                         /\ SubSeq(p, 1, Len(Components(root))) =
                                Components(root)
                         /\ GlobAst(p[Len(p)])}

\* k is the path of the file p, found from root, without the root prefix
\* and the '.ast' suffix
RecoveredFrom(root, p, k) ==
    root \o k \o AstExt =
        WalkPath(root, SubSeq(p, Len(Components(root)) + 1, Len(p)))

\* C12: after a successful load_from_disk(root_dir) the store holds one key
\* for each *.ast file found at any depth under root_dir, the file's path
\* without the root prefix and the '.ast' suffix, bound to the unit read
\* from that file, and no other key, whatever the store held before
C12_LoadReplacesStore ==
    (lastOp.op = "load" /\ lastOp.ok) =>
        /\ \A k \in DOMAIN tunits :
              \E p \in FoundUnder(lastOp.arg) :
                 /\ RecoveredFrom(lastOp.arg, p, k)
                 /\ tunits[k] = disk[p]
        /\ \A p \in FoundUnder(lastOp.arg) :
              \E k \in DOMAIN tunits : RecoveredFrom(lastOp.arg, p, k)

\* a successful load has put units in the store and a key the store held
\* before the call is gone
C12_Witness ==
    /\ lastOp.op = "load"
    /\ lastOp.ok
    /\ DOMAIN tunits # {}
    /\ \E k \in lastOp.keys : k \notin DOMAIN tunits

----------------------------------------------------------------------------
(* Cursors, the classifier and the dependent-type helpers                  *)

\* the cursor kinds to_ast_node_id knows
MappedKinds ==
    {"NAMESPACE", "CLASS_DECL", "CLASS_TEMPLATE",
     "CLASS_TEMPLATE_PARTIAL_SPECIALIZATION", "STRUCT_DECL", "ENUM_DECL",
     "ENUM_CONSTANT_DECL", "UNION_DECL", "FIELD_DECL", "VAR_DECL",
     "FUNCTION_DECL", "FUNCTION_TEMPLATE", "CXX_METHOD", "CONSTRUCTOR",
     "DESTRUCTOR", "PARM_DECL", "TEMPLATE_TYPE_PARAMETER",
     "TEMPLATE_NON_TYPE_PARAMETER", "TEMPLATE_TEMPLATE_PARAMETER",
     "MACRO_DEFINITION", "MACRO_INSTANTIATION", "TYPEDEF_DECL",
     "TYPE_ALIAS_DECL", "NAMESPACE_ALIAS", "USING_DIRECTIVE",
     "USING_DECLARATION"}

\* cursor kinds of the front-end that the table does not have: expressions
\* and references (uses of a declaration), and statements
UseKinds ==
    {"MEMBER_REF_EXPR", "CALL_EXPR", "DECL_REF_EXPR", "UNEXPOSED_EXPR",
     "TYPE_REF"}

StmtKinds == {"COMPOUND_STMT", "LABEL_STMT", "TRANSLATION_UNIT"}

UnmappedKinds == UseKinds \cup StmtKinds \cup {"OVERLOADED_DECL_REF"}

MacroKinds == {"MACRO_DEFINITION", "MACRO_INSTANTIATION"}

\* the kinds of the table that are declarations
DeclKinds == MappedKinds \ MacroKinds

CursorKinds == MappedKinds \cup UnmappedKinds

\* ClangParser.to_ast_node_id(kind)
to_ast_node_id(kind) ==
    IF kind = "NAMESPACE" THEN "Namespace"
    ELSE IF kind \in {"CLASS_DECL", "CLASS_TEMPLATE",
                      "CLASS_TEMPLATE_PARTIAL_SPECIALIZATION"} THEN "Class"
    ELSE IF kind = "STRUCT_DECL" THEN "Struct"
    ELSE IF kind = "ENUM_DECL" THEN "Enum"
    ELSE IF kind = "ENUM_CONSTANT_DECL" THEN "EnumValue"
    ELSE IF kind = "UNION_DECL" THEN "Union"
    ELSE IF kind = "FIELD_DECL" THEN "Field"
    ELSE IF kind = "VAR_DECL" THEN "LocalVariable"
    ELSE IF kind \in {"FUNCTION_DECL", "FUNCTION_TEMPLATE"} THEN "Function"
    ELSE IF kind \in {"CXX_METHOD", "CONSTRUCTOR", "DESTRUCTOR"} THEN "Method"
    ELSE IF kind = "PARM_DECL" THEN "FunctionParameter"
    ELSE IF kind = "TEMPLATE_TYPE_PARAMETER" THEN "TemplateTypeParameter"
    ELSE IF kind = "TEMPLATE_NON_TYPE_PARAMETER"
         THEN "TemplateNonTypeParameter"
    ELSE IF kind = "TEMPLATE_TEMPLATE_PARAMETER"
         THEN "TemplateTemplateParameter"
    ELSE IF kind = "MACRO_DEFINITION" THEN "MacroDefinition"
    ELSE IF kind = "MACRO_INSTANTIATION" THEN "MacroInstantiation"
    ELSE IF kind \in {"TYPEDEF_DECL", "TYPE_ALIAS_DECL"} THEN "Typedef"
    ELSE IF kind = "NAMESPACE_ALIAS" THEN "NamespaceAlias"
    ELSE IF kind = "USING_DIRECTIVE" THEN "UsingDirective"
    ELSE IF kind = "USING_DECLARATION" THEN "UsingDeclaration"
    ELSE "Unsupported"

\* what a call returns: a value, or the exception that left it
Ret(v) == [raised |-> FALSE, value |-> v]
Raise(e) == [raised |-> TRUE, value |-> e]

\* cursor.referenced: a declaration refers to itself
Referenced(c) == IF c.referenced.tag = "self" THEN c ELSE c.referenced

HasReferenced(c) == c.referenced.tag # "none"

\* clang_getNumOverloadedDecls(cursor)
get_num_overloaded_decls(c) == Len(c.overloaded)

\* clang_getOverloadedDecl(cursor, num).kind
get_overloaded_decl_kind(c, num) == c.overloaded[num + 1]

\* the condition the three helpers test on a token
Qualifies(c, token) ==
    /\ token.kind = "IDENTIFIER"
    /\ token.cursorKind = "MEMBER_REF_EXPR"
    /\ token.cursorExtent = c.extent

\* index of the first token of cursor.get_tokens() that qualifies, else 0
FirstQualifying(c) ==
    LET I == {i \in 1..Len(c.tokens) : Qualifies(c, c.tokens[i])}
    IN  IF I = {} THEN 0 ELSE CHOOSE i \in I : \A j \in I : i <= j

\* the helper without its test of the AST parent
extract_dependent_type_kind_no_parent(c) ==
    IF c.kind = "MEMBER_REF_EXPR" /\ FirstQualifying(c) # 0
    THEN Ret("FIELD_DECL")
    ELSE Ret(c.kind)

\* ClangParser.__extract_dependent_type_kind(cursor); reading the attribute
\* ast_parent of a cursor that traverse() never visited raises
extract_dependent_type_kind(c) ==
    IF c.kind = "MEMBER_REF_EXPR"
    THEN IF c.ast_parent.tag = "unset" THEN Raise("AttributeError")
         ELSE IF c.ast_parent.tag = "cursor" /\ c.ast_parent.kind = "CALL_EXPR"
         THEN IF FirstQualifying(c) # 0 THEN Ret("CXX_METHOD")
              ELSE Ret(c.kind)
         ELSE IF FirstQualifying(c) # 0 THEN Ret("FIELD_DECL")
              ELSE Ret(c.kind)
    ELSE Ret(c.kind)

\* ClangParser.__extract_dependent_type_spelling(cursor)
extract_dependent_type_spelling(c) ==
    IF c.kind = "MEMBER_REF_EXPR" /\ FirstQualifying(c) # 0
    THEN Ret(c.tokens[FirstQualifying(c)].spelling)
    ELSE Ret(c.spelling)

\* ClangParser.__extract_dependent_type_location(cursor)
extract_dependent_type_location(c) ==
    IF c.kind = "MEMBER_REF_EXPR" /\ FirstQualifying(c) # 0
    THEN Ret(c.tokens[FirstQualifying(c)].location)
    ELSE Ret(c.location)

\* the classifier without the redirection to cursor.referenced
get_ast_node_id_own_kind(c) ==
    IF c.typeDependent
    THEN LET k == extract_dependent_type_kind(c)
         IN  IF k.raised THEN k ELSE Ret(to_ast_node_id(k.value))
    ELSE IF /\ c.kind = "OVERLOADED_DECL_REF"
            /\ get_num_overloaded_decls(c) # 0
         THEN Ret(to_ast_node_id(get_overloaded_decl_kind(c, 0)))
         ELSE Ret(to_ast_node_id(c.kind))

\* the classifier with the test of cursor.referenced made before the test
\* of the dependent type
get_ast_node_id_referenced_first(c) ==
    IF HasReferenced(c)
    THEN IF /\ Referenced(c).kind = "OVERLOADED_DECL_REF"
            /\ get_num_overloaded_decls(Referenced(c)) # 0
         THEN Ret(to_ast_node_id(get_overloaded_decl_kind(Referenced(c), 0)))
         ELSE Ret(to_ast_node_id(Referenced(c).kind))
    ELSE IF c.typeDependent
         THEN LET k == extract_dependent_type_kind(c)
              IN  IF k.raised THEN k ELSE Ret(to_ast_node_id(k.value))
         ELSE IF /\ c.kind = "OVERLOADED_DECL_REF"
                 /\ get_num_overloaded_decls(c) # 0
              THEN Ret(to_ast_node_id(get_overloaded_decl_kind(c, 0)))
              ELSE Ret(to_ast_node_id(c.kind))

\* ClangParser.get_ast_node_id(cursor)
get_ast_node_id(c) ==
    IF c.typeDependent
    THEN LET k == extract_dependent_type_kind(c)
         IN  IF k.raised THEN k ELSE Ret(to_ast_node_id(k.value))
    ELSE IF HasReferenced(c)
         THEN IF /\ Referenced(c).kind = "OVERLOADED_DECL_REF"
                 /\ get_num_overloaded_decls(Referenced(c)) # 0
              THEN Ret(to_ast_node_id(
                           get_overloaded_decl_kind(Referenced(c), 0)))
              ELSE Ret(to_ast_node_id(Referenced(c).kind))
         ELSE IF /\ c.kind = "OVERLOADED_DECL_REF"
                 /\ get_num_overloaded_decls(c) # 0
              THEN Ret(to_ast_node_id(get_overloaded_decl_kind(c, 0)))
              ELSE Ret(to_ast_node_id(c.kind))

\* ClangParser.get_ast_node_name(cursor)
get_ast_node_name(c) ==
    IF c.typeDependent THEN extract_dependent_type_spelling(c)
    ELSE IF HasReferenced(c) THEN Ret(Referenced(c).spelling)
    ELSE Ret(c.spelling)

\* get_ast_node_line with the redirection get_ast_node_name makes
get_ast_node_line_redirected(c) ==
    IF c.typeDependent
    THEN LET l == extract_dependent_type_location(c)
         IN  IF l.raised THEN l ELSE Ret(l.value.line)
    ELSE IF HasReferenced(c) THEN Ret(Referenced(c).location.line)
    ELSE Ret(c.location.line)

\* ClangParser.get_ast_node_line(cursor)
get_ast_node_line(c) ==
    IF c.typeDependent
    THEN LET l == extract_dependent_type_location(c)
         IN  IF l.raised THEN l ELSE Ret(l.value.line)
    ELSE Ret(c.location.line)

\* ClangParser.get_ast_node_column(cursor)
get_ast_node_column(c) ==
    IF c.typeDependent
    THEN LET l == extract_dependent_type_location(c)
         IN  IF l.raised THEN l ELSE Ret(l.value.column)
    ELSE Ret(c.location.column)

----------------------------------------------------------------------------
(* The cursors the classifier is applied to                                *)

MaxCandidates == 2

CandidateKinds == {"FUNCTION_TEMPLATE", "CXX_METHOD"}

\* the candidate lists of an unresolved overload set; the front-end
\* reports no candidates for any other kind of cursor
OverloadsOf(kind) ==
    IF kind = "OVERLOADED_DECL_REF"
    THEN UNION {[1..n -> CandidateKinds] : n \in 0..MaxCandidates}
    ELSE {<<>>}

Loc(l, c) == [line |-> l, column |-> c]

Tok(kind, sp, loc, ck, ext) ==
    [kind |-> kind, spelling |-> sp, location |-> loc, cursorKind |-> ck,
     cursorExtent |-> ext]

\* the extent of the cursor under classification, and another extent
OwnExtent == "own"
OtherExtent == "other"

TokBase == Tok("IDENTIFIER", "t", Loc(2, 4), "DECL_REF_EXPR", OtherExtent)
TokDot == Tok("PUNCTUATION", ".", Loc(2, 5), "MEMBER_REF_EXPR", OwnExtent)
TokInner == Tok("IDENTIFIER", "a", Loc(2, 6), "MEMBER_REF_EXPR", OtherExtent)
TokFoo == Tok("IDENTIFIER", "foo", Loc(2, 8), "MEMBER_REF_EXPR", OwnExtent)
TokBar == Tok("IDENTIFIER", "bar", Loc(2, 9), "MEMBER_REF_EXPR", OwnExtent)
TokCall == Tok("IDENTIFIER", "foo", Loc(2, 8), "CALL_EXPR", OwnExtent)
TokKeyword == Tok("KEYWORD", "this", Loc(2, 4), "MEMBER_REF_EXPR", OwnExtent)

\* token streams with and without a qualifying token
TokenStreams ==
    {<<>>,
     <<TokBase, TokDot, TokFoo>>,
     <<TokBase, TokDot, TokInner, TokDot, TokFoo, TokBar>>,
     <<TokBase, TokDot, TokInner>>,
     <<TokKeyword, TokDot, TokCall>>}

TokensOf(kind) ==
    IF kind = "MEMBER_REF_EXPR" THEN TokenStreams
    ELSE {<<>>, <<TokBase, TokDot, TokFoo>>}

Unset == [tag |-> "unset"]
Self == [tag |-> "self"]

ParentCursor(kind) == [tag |-> "cursor", kind |-> kind]

\* ast_parent: never attached, None, a call expression, something else
Parents ==
    {Unset, NoCursor, ParentCursor("CALL_EXPR"), ParentCursor("UNEXPOSED_EXPR")}

Cursor(kind, dep, sp, loc, ref, ovl, parent, toks) ==
    [tag |-> "cursor", kind |-> kind, typeDependent |-> dep,
     spelling |-> sp, location |-> loc, extent |-> OwnExtent,
     referenced |-> ref, overloaded |-> ovl, ast_parent |-> parent,
     tokens |-> toks]

\* what cursor.referenced can be: a cursor the front-end made, which no
\* traversal visited. It is a declaration or an overload set, which refer to
\* themselves, or a label or a macro definition, which refer to nothing.
ReferencedCursors ==
    UNION {{Cursor(k, dep, "decl", Loc(7, 5), Self, ovl, Unset, <<>>) :
               dep \in BOOLEAN, ovl \in OverloadsOf(k)} :
           k \in DeclKinds \cup {"OVERLOADED_DECL_REF"}}
    \cup {Cursor("LABEL_STMT", FALSE, "decl", Loc(7, 5), NoCursor, <<>>,
                 Unset, <<>>)}

MacroDefinition ==
    Cursor("MACRO_DEFINITION", FALSE, "decl", Loc(7, 5), NoCursor, <<>>,
           Unset, <<>>)

\* uses: of dependent type or not, referring to nothing or to a cursor of
\* ReferencedCursors
UseCursors ==
    UNION {{Cursor(k, dep, "use", Loc(2, 4), ref, <<>>, parent, toks) :
               dep \in BOOLEAN, ref \in {NoCursor} \cup ReferencedCursors,
               parent \in Parents, toks \in TokensOf(k)} : k \in UseKinds}

\* declarations refer to themselves
DeclCursors ==
    {Cursor(k, FALSE, "use", Loc(2, 4), Self, <<>>, parent, toks) :
        k \in DeclKinds, parent \in Parents, toks \in TokensOf("")}

\* statements refer to nothing
StmtCursors ==
    {Cursor(k, FALSE, "use", Loc(2, 4), NoCursor, <<>>, parent, toks) :
        k \in StmtKinds, parent \in Parents, toks \in TokensOf("")}

\* a macro instantiation refers to the definition of the macro
MacroCursors ==
    {Cursor(k, FALSE, "use", Loc(2, 4),
            IF k = "MACRO_DEFINITION" THEN NoCursor ELSE MacroDefinition,
            <<>>, parent, toks) :
        k \in MacroKinds, parent \in Parents, toks \in TokensOf("")}

\* unresolved overload sets, with and without candidates
OverloadCursors ==
    {Cursor("OVERLOADED_DECL_REF", FALSE, "use", Loc(2, 4), ref, ovl, parent,
            toks) :
        ref \in {NoCursor, Self}, ovl \in OverloadsOf("OVERLOADED_DECL_REF"),
        parent \in Parents, toks \in TokensOf("")}

CursorPool ==
    UseCursors \cup DeclCursors \cup StmtCursors \cup MacroCursors
        \cup OverloadCursors

NoResult == [op |-> "none", ret |-> Ret(None)]

InitClassify ==
    /\ InitStore
    /\ QueryIdle
    /\ cur \in CursorPool
    /\ res = NoResult
    /\ ObjIdle

\* each operation is applied once to the cursor drawn by Init
GetAstNodeId ==
    /\ res = NoResult
    /\ res' = [op |-> "get_ast_node_id",
               ret |-> get_ast_node_id(cur)]
    /\ UNCHANGED <<cur, storeVars, queryVars, objVars>>

\* get_ast_node_id(cursor.referenced)
GetAstNodeIdOfReferenced ==
    /\ res = NoResult
    /\ HasReferenced(cur)
    /\ res' = [op |-> "get_ast_node_id(referenced)",
               ret |-> get_ast_node_id(Referenced(cur))]
    /\ UNCHANGED <<cur, storeVars, queryVars, objVars>>

GetAstNodeName ==
    /\ res = NoResult
    /\ res' = [op |-> "get_ast_node_name",
               ret |-> get_ast_node_name(cur)]
    /\ UNCHANGED <<cur, storeVars, queryVars, objVars>>

GetAstNodeLine ==
    /\ res = NoResult
    /\ res' = [op |-> "get_ast_node_line",
               ret |-> get_ast_node_line(cur)]
    /\ UNCHANGED <<cur, storeVars, queryVars, objVars>>

GetAstNodeColumn ==
    /\ res = NoResult
    /\ res' = [op |-> "get_ast_node_column",
               ret |-> get_ast_node_column(cur)]
    /\ UNCHANGED <<cur, storeVars, queryVars, objVars>>

\* the helpers assert that the type of their cursor is dependent
ExtractDependentTypeKind ==
    /\ res = NoResult
    /\ cur.typeDependent
    /\ res' = [op |-> "extract_dependent_type_kind",
               ret |-> extract_dependent_type_kind(cur)]
    /\ UNCHANGED <<cur, storeVars, queryVars, objVars>>

ExtractDependentTypeSpelling ==
    /\ res = NoResult
    /\ cur.typeDependent
    /\ res' = [op |-> "extract_dependent_type_spelling",
               ret |-> extract_dependent_type_spelling(cur)]
    /\ UNCHANGED <<cur, storeVars, queryVars, objVars>>

ExtractDependentTypeLocation ==
    /\ res = NoResult
    /\ cur.typeDependent
    /\ res' = [op |-> "extract_dependent_type_location",
               ret |-> extract_dependent_type_location(cur)]
    /\ UNCHANGED <<cur, storeVars, queryVars, objVars>>

NextClassify ==
    \/ GetAstNodeId
    \/ GetAstNodeIdOfReferenced
    \/ GetAstNodeName
    \/ GetAstNodeLine
    \/ GetAstNodeColumn
    \/ ExtractDependentTypeKind
    \/ ExtractDependentTypeSpelling
    \/ ExtractDependentTypeLocation

\* the classifier and the helpers applied to every cursor of CursorPool
SpecClassify == InitClassify /\ [][NextClassify]_vars

----------------------------------------------------------------------------
(* The queries on the store                                                *)

\* the kind of the declaration d in the AST
DeclKind(ast, d) ==
    LET I == {i \in 1..Len(ast) : ast[i].usr = d.usr}
    IN  IF I = {} THEN "NO_DECL_FOUND" ELSE ast[CHOOSE i \in I : TRUE].kind

\* the cursor map_source_location_to_cursor returns for the node n: no
\* traversal handed it out, so it has no ast_parent; the sources /a and /b
\* have no templates and no overload sets
CursorOf(ast, n) ==
    Cursor(n.kind, FALSE, n.spelling, Loc(n.line, n.column),
           IF n.ref.tag = "none" THEN NoCursor
           ELSE IF n.usr = n.ref.usr THEN Self
           ELSE Cursor(DeclKind(ast, n.ref), FALSE, n.ref.spelling,
                       Loc(0, 0), Self, <<>>, Unset, <<>>),
           <<>>, Unset, <<>>)

\* get_ast_node_id(map_source_location_to_cursor(filename, line, column))
GetAstNodeIdAt(f, l, c) ==
    /\ pc = "idle"
    /\ f \in DOMAIN tunits
    /\ pc' = "classified"
    /\ cur' = CursorOf(AstOf(tunits[f].src), CursorAt(tunits[f], l, c))
    /\ res' = [op |-> "get_ast_node_id", ret |-> get_ast_node_id(cur')]
    /\ UNCHANGED <<filename, query, target, references, todo, stack,
                   attached, storeVars, objVars>>

NextRefs ==
    \/ \E k \in RefKeys, src \in SourcePool, ok \in BOOLEAN : Run(k, src, ok)
    \/ \E f \in QueryFiles, p \in QueryPositions :
          FindAllReferences(f, p[1], p[2])
    \/ \E k \in RefKeys : NextUnit(k)
    \/ Visit
    \/ ReturnReferences
    \/ \E f \in QueryFiles, p \in QueryPositions :
          GetAstNodeIdAt(f, p[1], p[2])
    \/ Finish

\* the store under run() and the queries made on it
SpecRefs == Init /\ [][NextRefs]_vars

----------------------------------------------------------------------------
(* ImmutableSourceLocation                                                 *)

\* ImmutableSourceLocation(source_location)
ImmutableSourceLocation(sl) == [tag |-> "loc", source_location |-> sl]

\* a ^ b for naturals
RECURSIVE Xor(_, _)
Xor(a, b) ==
    IF a = 0 THEN b
    ELSE IF b = 0 THEN a
    ELSE 2 * Xor(a \div 2, b \div 2) + (((a % 2) + (b % 2)) % 2)

\* ord(ch) for the characters of the file names
Ord(ch) ==
    CASE ch = "/" -> 47
      [] ch = "." -> 46
      [] ch = "a" -> 97
      [] ch = "b" -> 98
      [] ch = "d" -> 100
      [] OTHER -> 63

\* hash(s) of a str, low 12 bits: x = ord(s[0]) << 7, then for each
\* character x = (1000003 * x) ^ ord(c), at last x ^= len(s)
StrHash(s) ==
    LET F[i \in 0..Len(s)] ==
            IF i = 0 THEN (Ord(s[1]) * 128) % 4096
            ELSE Xor((579 * F[i - 1]) % 4096, Ord(s[i]))
    IN  IF s = <<>> THEN 0 ELSE Xor(F[Len(s)], Len(s))

\* __eq__: self.source_location.__eq__(other.source_location), which is
\* clang_equalLocations
loc_eq(a, b) == a.source_location = b.source_location

\* __ne__: not self.__eq__(other)
loc_ne(a, b) == ~loc_eq(a, b)

\* __hash__: hash(file.name) ^ hash(line) ^ hash(column) ^ hash(offset);
\* source_location.file is None for a location outside any file
loc_hash(a) ==
    LET sl == a.source_location
    IN  IF sl.file = NoFile THEN Raise("AttributeError")
        ELSE Ret(Xor(Xor(Xor(StrHash(sl.file), sl.line), sl.column),
                     sl.offset))

\* locations in two units that both hold the files /a and /b; the
\* location of what the compiler declares by itself has no file
LocPool ==
    {ImmutableSourceLocation(SourceLocation([id |-> t], f, p[1], p[2])) :
        t \in 1..2, f \in {KeyA, KeyB}, p \in {<<1, 6>>, <<3, 27>>}}
    \cup {ImmutableSourceLocation(SourceLocation([id |-> t], NoFile, 0, 0)) :
             t \in 1..2}

InitLocations ==
    /\ InitStore
    /\ QueryIdle
    /\ ClassIdle
    /\ locs \in [a : LocPool, b : LocPool]
    /\ children = <<>>
    /\ trav = NoTraversal

\* a == b
CallEq ==
    /\ res = NoResult
    /\ res' = [op |-> "eq", ret |-> Ret(loc_eq(locs.a, locs.b))]
    /\ UNCHANGED <<cur, locs, children, trav, storeVars, queryVars>>

\* a != b
CallNe ==
    /\ res = NoResult
    /\ res' = [op |-> "ne", ret |-> Ret(loc_ne(locs.a, locs.b))]
    /\ UNCHANGED <<cur, locs, children, trav, storeVars, queryVars>>

\* hash(a), hash(b)
CallHash ==
    /\ res = NoResult
    /\ res' = [op |-> "hash",
               ret |-> [raised |-> \/ loc_hash(locs.a).raised
                                   \/ loc_hash(locs.b).raised,
                        value |-> <<loc_hash(locs.a).value,
                                    loc_hash(locs.b).value>>]]
    /\ UNCHANGED <<cur, locs, children, trav, storeVars, queryVars>>

NextLocations ==
    \/ CallEq
    \/ CallNe
    \/ CallHash

\* the comparisons and the hash of two locations
SpecLocations == InitLocations /\ [][NextLocations]_vars

\* file, line, column and offset of the two locations are equal
SameFields(a, b) ==
    /\ a.source_location.file = b.source_location.file
    /\ a.source_location.line = b.source_location.line
    /\ a.source_location.column = b.source_location.column
    /\ a.source_location.offset = b.source_location.offset

\* C14: a == b exactly when file, line, column and offset of a and b are
\* equal, a != b is the negation of a == b, and equal locations have equal
\* hashes
C14_ValueEquality ==
    /\ res.op = "eq" => (res.ret.value <=> SameFields(locs.a, locs.b))
    /\ res.op = "ne" => (res.ret.value <=> ~loc_eq(locs.a, locs.b))
    /\ (res.op = "hash" /\ loc_eq(locs.a, locs.b)) =>
           /\ ~res.ret.raised
           /\ res.ret.value[1] = res.ret.value[2]

----------------------------------------------------------------------------
(* traverse and the patched Cursor.get_children                            *)

\* ChildVisitResult
Break == "BREAK"
Continue == "CONTINUE"
Recurse == "RECURSE"
VisitResults == {Break, Continue, Recurse}

\* the (child, parent) pairs clang_visitChildren hands to the callback for
\* the children of node p
ChildPairs(ast, p) ==
    [i \in 1..Len(Children(ast, p)) |->
        [node |-> Children(ast, p)[i], parent |-> p]]

\* a visitor wrapper that attaches the cursor the traversal started from
AttachedParentRoot(root, parent) == root

\* child.ast_parent = parent
AttachedParent(root, parent) == parent

\* child._tu = cursor._tu
AttachedTu(u) == u.id

\* the nodes a traversal may start from: the cursor of the unit, the
\* function f, its body, the call 's.foobar()'
TraverseRoots == {0, 5, 8, 12}

\* traverse(cursor, client_data, client_visitor) for the node r of the unit
\* of k, with some client visitor
Traverse(k, r) ==
    /\ pc = "idle"
    /\ k \in DOMAIN tunits
    /\ pc' = "traverse"
    /\ trav' = [fn |-> "traverse", key |-> k, root |-> r, type |-> "any"]
    /\ stack' = ChildPairs(AstOf(tunits[k].src), r)
    /\ children' = <<>>
    /\ attached' = NoAttachment
    /\ UNCHANGED <<filename, query, target, references, todo, locs,
                   storeVars, classVars>>

\* get_children_patched(self, traversal_type) for the node r of the unit of
\* k: children = [], then traverse(self, children, visitor)
GetChildren(k, r, tt) ==
    /\ pc = "idle"
    /\ k \in DOMAIN tunits
    /\ pc' = "traverse"
    /\ trav' = [fn |-> "get_children", key |-> k, root |-> r, type |-> tt]
    /\ stack' = ChildPairs(AstOf(tunits[k].src), r)
    /\ children' = <<>>
    /\ attached' = NoAttachment
    /\ UNCHANGED <<filename, query, target, references, todo, locs,
                   storeVars, classVars>>

\* one call of traverse.visitor: the child gets _tu and ast_parent, then the
\* client visitor runs and returns result; the visitor of
\* get_children_patched appends the child and returns traversal_type
VisitChild(result) ==
    /\ pc = "traverse"
    /\ stack # <<>>
    /\ trav.fn = "get_children" => result = trav.type
    /\ LET u == tunits[trav.key]
           ast == AstOf(u.src)
           h == Head(stack)
           child == [node |-> h.node,
                     parent |-> AttachedParent(trav.root, h.parent),
                     tu |-> AttachedTu(u)]
       IN  /\ attached' = child
           /\ children' = IF trav.fn = "get_children"
                          THEN Append(children, child)
                          ELSE children
           /\ stack' = IF result = Break THEN <<>>
                       ELSE IF result = Continue THEN Tail(stack)
                       ELSE ChildPairs(ast, h.node) \o Tail(stack)
    /\ UNCHANGED <<pc, trav, filename, query, target, references, todo, locs,
                   storeVars, classVars>>

\* clang_visitChildren has returned: get_children_patched returns
\* iter(children), whose cursors keep what was attached to them
TraverseReturns ==
    /\ pc = "traverse"
    /\ stack = <<>>
    /\ pc' = "returned"
    /\ attached' = NoAttachment
    /\ UNCHANGED <<trav, children, filename, query, target, references,
                   todo, stack, locs, storeVars, classVars>>

\* the caller is done with the result
TraverseDone ==
    /\ pc = "returned"
    /\ pc' = "idle"
    /\ trav' = NoTraversal
    /\ children' = <<>>
    /\ UNCHANGED <<filename, query, target, references, todo, stack,
                   attached, locs, storeVars, classVars>>

NextTraverse ==
    \/ \E k \in RefKeys, src \in SourcePool, ok \in BOOLEAN : Run(k, src, ok)
    \/ \E k \in RefKeys, r \in TraverseRoots : Traverse(k, r)
    \/ \E k \in RefKeys, r \in TraverseRoots, tt \in VisitResults :
          GetChildren(k, r, tt)
    \/ \E result \in VisitResults : VisitChild(result)
    \/ TraverseReturns
    \/ TraverseDone

\* the store under run() and the traversals of its units
SpecTraverse == Init /\ [][NextTraverse]_vars

----------------------------------------------------------------------------
(* Properties of the classifier                                            *)

SemanticNodeIds ==
    {"Namespace", "Class", "Struct", "Enum", "EnumValue", "Union", "Field",
     "LocalVariable", "Function", "Method", "FunctionParameter",
     "TemplateTypeParameter", "TemplateNonTypeParameter",
     "TemplateTemplateParameter", "MacroDefinition", "MacroInstantiation",
     "Typedef", "NamespaceAlias", "UsingDirective", "UsingDeclaration",
     "Unsupported"}

\* C5: get_ast_node_id raises for no cursor, whether or not a traversal
\* attached a parent to it, and returns a SemanticNodeId, which is
\* Unsupported for a kind that the table does not have
C5_NeverRaises ==
    res.op = "get_ast_node_id" =>
        /\ ~res.ret.raised
        /\ res.ret.value \in SemanticNodeIds
        /\ (/\ ~cur.typeDependent
            /\ ~HasReferenced(cur)
            /\ cur.overloaded = <<>>
            /\ cur.kind \notin MappedKinds) => res.ret.value = "Unsupported"

\* the cursor has a referenced declaration that is neither an overload set
\* nor of dependent type
OrdinaryReferenced ==
    /\ HasReferenced(cur)
    /\ Referenced(cur).kind # "OVERLOADED_DECL_REF"
    /\ ~Referenced(cur).typeDependent

\* C6: whatever the kind and type of the cursor, when its referenced
\* declaration is ordinary get_ast_node_id(cursor) equals
\* get_ast_node_id(cursor.referenced)
C6_SameAsReferenced ==
    (res.op = "get_ast_node_id(referenced)" /\ OrdinaryReferenced) =>
        res.ret = get_ast_node_id(cur)

\* C6 as amended: the same for a cursor that is not itself of dependent
\* type; both calls return the table entry of the referenced kind
C6_SameAsReferencedNonDependent ==
    (/\ res.op \in {"get_ast_node_id(referenced)", "get_ast_node_id"}
     /\ OrdinaryReferenced
     /\ ~cur.typeDependent) =>
        /\ res.ret = get_ast_node_id(cur)
        /\ res.ret = get_ast_node_id(Referenced(cur))
        /\ ~res.ret.raised

\* a use whose own kind maps differently from the kind of its declaration
C6_Witness ==
    /\ res.op = "get_ast_node_id(referenced)"
    /\ OrdinaryReferenced
    /\ ~cur.typeDependent
    /\ cur.referenced.tag = "cursor"
    /\ to_ast_node_id(cur.kind) # to_ast_node_id(cur.referenced.kind)
    /\ res.ret.value = "Method"

\* C7: get_ast_node_id resolves in the order dependent type, referenced
\* declaration (candidate 0 of a non-empty overload set, else its kind),
\* own overload set (candidate 0), own kind
C7_ResolutionOrder ==
    res.op = "get_ast_node_id" =>
        IF cur.typeDependent
        THEN LET k == extract_dependent_type_kind(cur)
             IN  /\ res.ret.raised = k.raised
                 /\ ~k.raised => res.ret.value = to_ast_node_id(k.value)
        ELSE /\ ~res.ret.raised
             /\ res.ret.value = to_ast_node_id(
                    IF HasReferenced(cur)
                    THEN IF /\ Referenced(cur).kind = "OVERLOADED_DECL_REF"
                            /\ Len(Referenced(cur).overloaded) >= 1
                         THEN Referenced(cur).overloaded[1]
                         ELSE Referenced(cur).kind
                    ELSE IF /\ cur.kind = "OVERLOADED_DECL_REF"
                            /\ Len(cur.overloaded) >= 1
                         THEN cur.overloaded[1]
                         ELSE cur.kind)

\* a dependent cursor with a referenced declaration was classified from the
\* helper's kind and not from the declaration
C7_Witness ==
    /\ res.op = "get_ast_node_id"
    /\ cur.typeDependent
    /\ cur.kind = "MEMBER_REF_EXPR"
    /\ cur.referenced.tag = "cursor"
    /\ cur.referenced.kind = "OVERLOADED_DECL_REF"
    /\ cur.referenced.overloaded = <<"CXX_METHOD", "FUNCTION_TEMPLATE">>
    /\ ~res.ret.raised
    /\ res.ret.value = "Field"

HasQualifyingToken ==
    \E i \in 1..Len(cur.tokens) :
        /\ cur.tokens[i].kind = "IDENTIFIER"
        /\ cur.tokens[i].cursorKind = "MEMBER_REF_EXPR"
        /\ cur.tokens[i].cursorExtent = cur.extent

\* C8: for a dependent member access with a qualifying token and an attached
\* parent the effective kind is CXX_METHOD under a call expression and
\* FIELD_DECL under any other parent or None
C8_MethodOrField ==
    (/\ res.op = "extract_dependent_type_kind"
     /\ cur.kind = "MEMBER_REF_EXPR"
     /\ HasQualifyingToken
     /\ cur.ast_parent.tag # "unset") =>
        /\ ~res.ret.raised
        /\ res.ret.value =
              IF cur.ast_parent = ParentCursor("CALL_EXPR")
              THEN "CXX_METHOD" ELSE "FIELD_DECL"

\* a member access under a call expression was resolved to a method
C8_Witness ==
    /\ res.op = "extract_dependent_type_kind"
    /\ cur.kind = "MEMBER_REF_EXPR"
    /\ HasQualifyingToken
    /\ cur.ast_parent = ParentCursor("CALL_EXPR")
    /\ res.ret.value = "CXX_METHOD"

\* C9: for a dependent cursor that is no member access, or has no
\* qualifying token, the three helpers return the native kind, spelling and
\* location and do not raise
C9_SilentFallback ==
    (cur.tag = "cursor" /\ (cur.kind # "MEMBER_REF_EXPR" \/ ~HasQualifyingToken))
        =>
        /\ res.op = "extract_dependent_type_kind" =>
              ~res.ret.raised /\ res.ret.value = cur.kind
        /\ res.op = "extract_dependent_type_spelling" =>
              ~res.ret.raised /\ res.ret.value = cur.spelling
        /\ res.op = "extract_dependent_type_location" =>
              ~res.ret.raised /\ res.ret.value = cur.location

\* C10: name, line and column make the same redirection: the helper for a
\* dependent cursor, else the referenced declaration when there is one, else
\* the cursor itself
C10_SameRedirection ==
    LET dep == cur.typeDependent
        own == ~dep /\ ~HasReferenced(cur)
        sp  == extract_dependent_type_spelling(cur)
        loc == extract_dependent_type_location(cur)
    IN  /\ res.op = "get_ast_node_name" =>
              res.ret = IF dep THEN sp
                        ELSE IF own THEN Ret(cur.spelling)
                        ELSE Ret(Referenced(cur).spelling)
        /\ res.op = "get_ast_node_line" =>
              res.ret = IF dep THEN Ret(loc.value.line)
                        ELSE IF own THEN Ret(cur.location.line)
                        ELSE Ret(Referenced(cur).location.line)
        /\ res.op = "get_ast_node_column" =>
              res.ret = IF dep THEN Ret(loc.value.column)
                        ELSE IF own THEN Ret(cur.location.column)
                        ELSE Ret(Referenced(cur).location.column)

\* C10 as amended: the name is redirected as stated; line and column are
\* the helper's location for a dependent cursor and otherwise the cursor's
\* own location, also when it has a referenced declaration
C10_NameRedirectedLocationOwn ==
    LET dep == cur.typeDependent
        own == ~dep /\ ~HasReferenced(cur)
        sp  == extract_dependent_type_spelling(cur)
        loc == extract_dependent_type_location(cur)
    IN  /\ res.op = "get_ast_node_name" =>
              res.ret = IF dep THEN sp
                        ELSE IF own THEN Ret(cur.spelling)
                        ELSE Ret(Referenced(cur).spelling)
        /\ res.op = "get_ast_node_line" =>
              res.ret = IF dep THEN Ret(loc.value.line)
                        ELSE Ret(cur.location.line)
        /\ res.op = "get_ast_node_column" =>
              res.ret = IF dep THEN Ret(loc.value.column)
                        ELSE Ret(cur.location.column)

\* the line of a use was asked whose declaration is on another line
C10_Witness ==
    /\ res.op = "get_ast_node_line"
    /\ ~cur.typeDependent
    /\ cur.referenced.tag = "cursor"
    /\ cur.referenced.location.line # cur.location.line
    /\ res.ret.value = cur.location.line

----------------------------------------------------------------------------
(* Properties of find_all_references                                       *)

\* /a and /b are loaded, each parsed from its own file, and the query made
\* at the declaration of foobar (line 1, column 6 of /a) has returned
DeclarationQueried ==
    /\ pc = "done"
    /\ DOMAIN tunits = {KeyA, KeyB}
    /\ tunits[KeyA].src = KeyA
    /\ tunits[KeyB].src = KeyB
    /\ query = [file |-> KeyA, line |-> 1, column |-> 6]

\* the locations of the three calls of foobar: one in /a, two in /b
CallLocations ==
    {SourceLocation(tunits[KeyA], KeyA, 3, 15),
     SourceLocation(tunits[KeyB], KeyB, 2, 12),
     SourceLocation(tunits[KeyB], KeyB, 2, 22)}

\* C1: find_all_references at the declaration of a function called at three
\* locations of two units returns exactly the 3 call locations
C1_ThreeCallLocations ==
    DeclarationQueried =>
        /\ Cardinality(references) = 3
        /\ references = CallLocations

\* C1 as amended: it returns exactly 4 locations, the location of the
\* declaration and each call location once, and no location of S::foobar
C1_DeclarationAndCallLocations ==
    DeclarationQueried =>
        /\ Cardinality(references) = 4
        /\ references =
              CallLocations \cup {SourceLocation(tunits[KeyA], KeyA, 1, 6)}

\* the query at the declaration has returned with the calls of both units
C1_Witness ==
    /\ DeclarationQueried
    /\ CallLocations \subseteq references

\* C2: every location of the result is in the file the query named
C2_OnlyOriginFile ==
    \A l \in references : l.file = query.file

\* C2 as amended: every location of the result is in the file whose name is
\* the key of the unit it was found in, a key of the store
C2_OnlyFileOfTraversedUnit ==
    \A l \in references :
        /\ l.file \in DOMAIN tunits
        /\ l.tu = tunits[l.file].id

\* a query has returned a location of a file other than the one it named
C2_Witness ==
    /\ pc = "done"
    /\ \E l \in references : l.file # query.file

\* the token of the node n that starts where n is located has the spelling
\* of the search target
HasTargetTokenAtLocation(n, tgt) ==
    \E i \in 1..Len(n.tokens) :
       /\ n.tokens[i].line = n.line
       /\ n.tokens[i].column = n.column
       /\ n.tokens[i].spelling = tgt.spelling

\* C15: a visited node of the traversed file whose effective spelling and
\* USR are those of the target adds its location to the references exactly
\* when one of its tokens starts at the location of the node and is spelled
\* like the target; otherwise the visit adds nothing
C15_TokenConfirmation ==
    [][(pc = "visit" /\ stack # <<>>) =>
          LET u == tunits[filename]
              n == AstOf(u.src)[Head(stack)]
          IN  (/\ n.file = filename
               /\ Effective(n).spelling = target.spelling
               /\ Effective(n).usr = target.usr) =>
                  references' =
                      IF HasTargetTokenAtLocation(n, target)
                      THEN references \cup {LocationOf(u, n)}
                      ELSE references]_vars

\* the search for S::foobar has visited the call 's.foobar()', located at
\* 's', and its member reference, located at 'foobar': the references hold
\* the second location and not the first
C15_Witness ==
    /\ pc = "visit"
    /\ target = DSFoobar
    /\ filename = KeyA
    /\ attached.node > 0
    /\ AstOf(tunits[filename].src)[attached.node].kind = "MEMBER_REF_EXPR"
    /\ SourceLocation(tunits[filename], KeyA, 3, 27) \in references
    /\ SourceLocation(tunits[filename], KeyA, 3, 25) \notin references

----------------------------------------------------------------------------
(* Properties of traverse and get_children                                 *)

\* C16: every node a traversal hands to its visitor, at any depth and
\* whatever the visitor returns, carries the unit of the root as owning unit
\* and its immediate AST parent as parent; get_children() of a node
\* returns the direct children of the node, in AST order, each carrying the
\* node as parent
C16_TraversalContext ==
    LET u == tunits[trav.key]
        ast == AstOf(u.src)
    IN  /\ (pc = "traverse" /\ attached # NoAttachment) =>
               /\ attached.tu = u.id
               /\ attached.parent = ast[attached.node].parent
        /\ (/\ pc = "returned"
            /\ trav.fn = "get_children"
            /\ trav.type = Continue) =>
               /\ {children[i].node : i \in 1..Len(children)} =
                      {i \in 1..Len(ast) : ast[i].parent = trav.root}
               /\ \A i, j \in 1..Len(children) :
                     i < j => children[i].node < children[j].node
               /\ \A i \in 1..Len(children) :
                     /\ children[i].parent = trav.root
                     /\ children[i].tu = u.id

\* a visitor that recurses has been handed a node below a child of the root
C16_Witness ==
    /\ pc = "traverse"
    /\ trav.fn = "traverse"
    /\ attached # NoAttachment
    /\ attached.parent # trav.root
    /\ AstOf(tunits[trav.key].src)[attached.parent].parent # trav.root

====
